---- MODULE Spec2Model ----
(***************************************************************************)
(* Model of twitter_text_utils.py: X's weighted character counting, text   *)
(* normalisation, validation and limit-aware truncation.                   *)
(*                                                                         *)
(* A text is a sequence of Unicode code points (naturals), so that the     *)
(* weight table, the invisible-character list, the whitespace class and    *)
(* the URL pattern are the source's own tables.                            *)
(***************************************************************************)
EXTENDS Integers, Sequences, FiniteSets, TLC

VARIABLES text, max_length, pc, result

vars == <<text, max_length, pc, result>>

(***************************************************************************)
(* Code points used by the source and by the input vocabulary.             *)
(***************************************************************************)
TAB == 9
LF == 10
CR == 13
SPACE == 32
QUOTE == 34
LT == 60
GT == 62
COLON == 58
SLASH == 47
LOWER_H == 104
LOWER_P == 112
LOWER_S == 115
LOWER_T == 116
UPPER_A == 65
ZWSP == 8203
WORD_JOINER == 8288
HIRAGANA_A == 12354

\* ellipsis='…' (U+2026), the default third argument of truncate_to_limit
ELLIPSIS == <<8230>>

\* X's weighted character ranges (weight 1, all others default to weight 2)
WEIGHT_1_RANGES ==
    << <<0, 4351>>,       \* 0x0000-0x10FF
       <<8192, 8205>>,    \* 0x2000-0x200D
       <<8208, 8223>>,    \* 0x2010-0x201F
       <<8242, 8247>> >>  \* 0x2032-0x2037

\* Invisible/problematic characters to remove
INVISIBLE_CHARS ==
    { 8203,    \* U+200B zero-width space
      8204,    \* U+200C zero-width non-joiner
      8206,    \* U+200E left-to-right mark
      8207,    \* U+200F right-to-left mark
      8288,    \* U+2060 word joiner
      65279,   \* U+FEFF zero-width no-break space
      8232,    \* U+2028 line separator
      8233,    \* U+2029 paragraph separator
      173 }    \* U+00AD soft hyphen

URL_WEIGHT == 23
DEFAULT_MAX_LENGTH == 280

(***************************************************************************)
(* Library behaviour the source relies on.                                 *)
(***************************************************************************)

\* str.isspace() / the regex class \s on str
IsSpace(c) ==
    \/ c \in 9..13
    \/ c \in 28..32
    \/ c \in {133, 160, 5760, 8232, 8233, 8239, 8287, 12288}
    \/ c \in 8192..8202

\* unicodedata.category(char).startswith('C'): the Cc, Cf, Cs and Co
\* ranges around the code points the inputs use (U+2065 is unassigned, Cn)
IsCategoryC(c) ==
    \/ c \in 0..31
    \/ c \in 127..159
    \/ c = 173
    \/ c \in 1536..1541
    \/ c \in 8203..8207
    \/ c \in 8234..8238
    \/ c \in 8288..8303
    \/ c \in 55296..63743
    \/ c = 65279
    \/ c \in 65529..65531

\* canonical compositions of unicodedata.normalize('NFC', .) over the
\* vocabulary: a starter followed directly by a combining mark composes
\* ('e' U+0065 then U+0301 combining acute gives U+00E9, 'A' U+0041 then
\* U+0301 gives U+00C1); no other pair of the vocabulary composes
NFC_PAIRS == { <<101, 769, 233>>, <<65, 769, 193>> }

\* the positions 1..Len(s), to select from
Positions(s) == [i \in 1..Len(s) |-> i]

\* s[i], s[i+1] are a base letter and a combining mark that compose (a mark
\* is never a base, so two such pairs do not overlap)
ComposesAt(s, i) ==
    /\ i >= 1
    /\ i < Len(s)
    /\ \E p \in NFC_PAIRS : p[1] = s[i] /\ p[2] = s[i + 1]

NFC(s) ==
    LET kept == SelectSeq(Positions(s), LAMBDA i : ~ComposesAt(s, i - 1))
    IN  [j \in 1..Len(kept) |->
            IF ComposesAt(s, kept[j])
            THEN (CHOOSE p \in NFC_PAIRS :
                      p[1] = s[kept[j]] /\ p[2] = s[kept[j] + 1])[3]
            ELSE s[kept[j]]]

RECURSIVE lstrip(_)
lstrip(s) == IF s # <<>> /\ IsSpace(s[1]) THEN lstrip(Tail(s)) ELSE s

RECURSIVE rstrip(_)
rstrip(s) ==
    IF s # <<>> /\ IsSpace(s[Len(s)]) THEN rstrip(SubSeq(s, 1, Len(s) - 1)) ELSE s

strip(s) == rstrip(lstrip(s))

\* re.sub(r'\s+', ' ', s): every maximal whitespace run becomes one space
collapse_whitespace(s) ==
    LET kept == SelectSeq(Positions(s),
                          LAMBDA i : ~IsSpace(s[i]) \/ i = 1 \/ ~IsSpace(s[i - 1]))
    IN  [j \in 1..Len(kept) |->
            IF IsSpace(s[kept[j]]) THEN SPACE ELSE s[kept[j]]]

\* s.split(sep) for a one-character separator: the fields, empty ones kept
RECURSIVE split_on(_, _)
split_on(s, sep) ==
    IF \A i \in DOMAIN s : s[i] # sep THEN <<s>>
    ELSE LET k == CHOOSE i \in DOMAIN s :
                      s[i] = sep /\ \A j \in 1..(i - 1) : s[j] # sep
         IN  <<SubSeq(s, 1, k - 1)>> \o split_on(SubSeq(s, k + 1, Len(s)), sep)

\* s.split(): the maximal runs of non-whitespace characters
RECURSIVE split_words(_)
split_words(s) ==
    LET t == lstrip(s)
    IN  IF t = <<>> THEN <<>>
        ELSE LET stops == { i \in DOMAIN t : IsSpace(t[i]) }
                 k == IF stops = {} THEN Len(t) + 1
                      ELSE CHOOSE i \in stops : \A j \in stops : i <= j
             IN  <<SubSeq(t, 1, k - 1)>> \o split_words(SubSeq(t, k, Len(t)))

\* a join that drops the separator
RECURSIVE join_without_separator(_, _)
join_without_separator(sep, parts) ==
    IF parts = <<>> THEN <<>>
    ELSE parts[1] \o join_without_separator(sep, Tail(parts))

\* sep.join(parts)
RECURSIVE join(_, _)
join(sep, parts) ==
    IF parts = <<>> THEN <<>>
    ELSE IF Len(parts) = 1 THEN parts[1]
    ELSE parts[1] \o sep \o join(sep, Tail(parts))

\* ''.join(parts)
RECURSIVE Flatten(_)
Flatten(ws) == IF ws = <<>> THEN <<>> ELSE ws[1] \o Flatten(Tail(ws))

(***************************************************************************)
(* URL_PATTERN = re.compile(r'https?://[^\s<>"]+')                         *)
(***************************************************************************)
IsUrlChar(c) == ~IsSpace(c) /\ c \notin {LT, GT, QUOTE}

HasAt(s, i, lit) ==
    /\ i + Len(lit) - 1 <= Len(s)
    /\ SubSeq(s, i, i + Len(lit) - 1) = lit

\* index of the first character after 'https?://' when the scheme starts
\* at i, 0 when it does not
url_scheme_end(s, i) ==
    IF ~HasAt(s, i, <<LOWER_H, LOWER_T, LOWER_T, LOWER_P>>) THEN 0
    ELSE IF HasAt(s, i + 4, <<LOWER_S, COLON, SLASH, SLASH>>) THEN i + 8
    ELSE IF HasAt(s, i + 4, <<COLON, SLASH, SLASH>>) THEN i + 7
    ELSE 0

RECURSIVE url_run_end(_, _)
url_run_end(s, j) ==
    IF j + 1 <= Len(s) /\ IsUrlChar(s[j + 1]) THEN url_run_end(s, j + 1) ELSE j

\* index of the last character of the match of URL_PATTERN that starts at
\* i, 0 when the pattern does not match there
URL_PATTERN_match_end(s, i) ==
    LET b == url_scheme_end(s, i)
    IN  IF b = 0 \/ b > Len(s) THEN 0
        ELSE IF ~IsUrlChar(s[b]) THEN 0
        ELSE url_run_end(s, b)

\* URL_PATTERN.match(s): anchored at the start of s
URL_PATTERN_match(s) == URL_PATTERN_match_end(s, 1) > 0

RECURSIVE URL_PATTERN_findall_from(_, _)
URL_PATTERN_findall_from(s, i) ==
    IF i > Len(s) THEN <<>>
    ELSE LET e == URL_PATTERN_match_end(s, i)
         IN  IF e > 0
             THEN <<SubSeq(s, i, e)>> \o URL_PATTERN_findall_from(s, e + 1)
             ELSE URL_PATTERN_findall_from(s, i + 1)

URL_PATTERN_findall(s) == URL_PATTERN_findall_from(s, 1)

RECURSIVE URL_PATTERN_sub_from(_, _)
URL_PATTERN_sub_from(s, i) ==
    IF i > Len(s) THEN <<>>
    ELSE LET e == URL_PATTERN_match_end(s, i)
         IN  IF e > 0
             THEN URL_PATTERN_sub_from(s, e + 1)
             ELSE <<s[i]>> \o URL_PATTERN_sub_from(s, i + 1)

\* URL_PATTERN.sub('', s)
URL_PATTERN_sub(s) == URL_PATTERN_sub_from(s, 1)

(***************************************************************************)
(* TwitterTextValidator                                                    *)
(***************************************************************************)
\* mutant: every character weighs 1, the default weight 2 is lost
get_character_weight_all_one(char) == 1

get_character_weight(char) ==
    IF \E r \in DOMAIN WEIGHT_1_RANGES :
           WEIGHT_1_RANGES[r][1] <= char /\ char <= WEIGHT_1_RANGES[r][2]
    THEN 1
    ELSE 2

\* mutant: the URL weight is left out of the total
calculate_weighted_length_no_url_weight(t) ==
    IF t = <<>>
    THEN [weighted_length |-> 0, url_count |-> 0,
          char_breakdown |-> [weight_1 |-> 0, weight_2 |-> 0, urls |-> 0]]
    ELSE LET urls == URL_PATTERN_findall(t)
             text_without_urls == URL_PATTERN_sub(t)
             weight_1_count ==
                 Cardinality({ i \in DOMAIN text_without_urls :
                                 get_character_weight(text_without_urls[i]) = 1 })
             weight_2_count ==
                 Cardinality({ i \in DOMAIN text_without_urls :
                                 get_character_weight(text_without_urls[i]) # 1 })
             url_chars == Len(urls) * URL_WEIGHT
         IN  [weighted_length |-> weight_1_count + (weight_2_count * 2),
              url_count |-> Len(urls),
              char_breakdown |-> [weight_1 |-> weight_1_count,
                                  weight_2 |-> weight_2_count,
                                  urls |-> url_chars]]

\* mutant: weight-2 characters are added once, not twice
calculate_weighted_length_single_weight(t) ==
    IF t = <<>>
    THEN [weighted_length |-> 0, url_count |-> 0,
          char_breakdown |-> [weight_1 |-> 0, weight_2 |-> 0, urls |-> 0]]
    ELSE LET urls == URL_PATTERN_findall(t)
             text_without_urls == URL_PATTERN_sub(t)
             weight_1_count ==
                 Cardinality({ i \in DOMAIN text_without_urls :
                                 get_character_weight(text_without_urls[i]) = 1 })
             weight_2_count ==
                 Cardinality({ i \in DOMAIN text_without_urls :
                                 get_character_weight(text_without_urls[i]) # 1 })
             url_chars == Len(urls) * URL_WEIGHT
         IN  [weighted_length |-> weight_1_count + weight_2_count + url_chars,
              url_count |-> Len(urls),
              char_breakdown |-> [weight_1 |-> weight_1_count,
                                  weight_2 |-> weight_2_count,
                                  urls |-> url_chars]]

\* mutant: the characters are counted over the text with its URLs still in
calculate_weighted_length_urls_kept(t) ==
    IF t = <<>>
    THEN [weighted_length |-> 0, url_count |-> 0,
          char_breakdown |-> [weight_1 |-> 0, weight_2 |-> 0, urls |-> 0]]
    ELSE LET urls == URL_PATTERN_findall(t)
             weight_1_count ==
                 Cardinality({ i \in DOMAIN t : get_character_weight(t[i]) = 1 })
             weight_2_count ==
                 Cardinality({ i \in DOMAIN t : get_character_weight(t[i]) # 1 })
             url_chars == Len(urls) * URL_WEIGHT
         IN  [weighted_length |-> weight_1_count + (weight_2_count * 2) + url_chars,
              url_count |-> Len(urls),
              char_breakdown |-> [weight_1 |-> weight_1_count,
                                  weight_2 |-> weight_2_count,
                                  urls |-> url_chars]]

\* mutant: a URL counts by its own length instead of the fixed 23
calculate_weighted_length_url_by_length(t) ==
    IF t = <<>>
    THEN [weighted_length |-> 0, url_count |-> 0,
          char_breakdown |-> [weight_1 |-> 0, weight_2 |-> 0, urls |-> 0]]
    ELSE LET urls == URL_PATTERN_findall(t)
             text_without_urls == URL_PATTERN_sub(t)
             weight_1_count ==
                 Cardinality({ i \in DOMAIN text_without_urls :
                                 get_character_weight(text_without_urls[i]) = 1 })
             weight_2_count ==
                 Cardinality({ i \in DOMAIN text_without_urls :
                                 get_character_weight(text_without_urls[i]) # 1 })
             url_chars == Len(Flatten(urls))
         IN  [weighted_length |-> weight_1_count + (weight_2_count * 2) + url_chars,
              url_count |-> Len(urls),
              char_breakdown |-> [weight_1 |-> weight_1_count,
                                  weight_2 |-> weight_2_count,
                                  urls |-> url_chars]]

calculate_weighted_length(t) ==
    IF t = <<>>
    THEN [weighted_length |-> 0, url_count |-> 0,
          char_breakdown |-> [weight_1 |-> 0, weight_2 |-> 0, urls |-> 0]]
    ELSE LET urls == URL_PATTERN_findall(t)
             text_without_urls == URL_PATTERN_sub(t)
             weight_1_count ==
                 Cardinality({ i \in DOMAIN text_without_urls :
                                 get_character_weight(text_without_urls[i]) = 1 })
             weight_2_count ==
                 Cardinality({ i \in DOMAIN text_without_urls :
                                 get_character_weight(text_without_urls[i]) # 1 })
             url_chars == Len(urls) * URL_WEIGHT
         IN  [weighted_length |-> weight_1_count + (weight_2_count * 2) + url_chars,
              url_count |-> Len(urls),
              char_breakdown |-> [weight_1 |-> weight_1_count,
                                  weight_2 |-> weight_2_count,
                                  urls |-> url_chars]]

\* a removal that drops only the listed characters (lines 118-119)
remove_invisible_chars_listed_only(t) ==
    SelectSeq(t, LAMBDA c : c \notin INVISIBLE_CHARS)

remove_invisible_chars(t) ==
    IF t = <<>> THEN t
    ELSE LET listed == SelectSeq(t, LAMBDA c : c \notin INVISIBLE_CHARS)
         IN  SelectSeq(listed,
                       LAMBDA c : ~(IsCategoryC(c) /\ c \notin {LF, CR, TAB, SPACE}))

\* mutant: the NFC step is missing
normalize_text_no_nfc(t) ==
    IF t = <<>> THEN t
    ELSE strip(collapse_whitespace(remove_invisible_chars(t)))

\* mutant: the final strip() is missing
\* a normalisation that leaves the whitespace inside the text as it is
normalize_text_keep_lines(t) ==
    IF t = <<>> THEN t
    ELSE strip(remove_invisible_chars(NFC(t)))

normalize_text_no_strip(t) ==
    IF t = <<>> THEN t
    ELSE collapse_whitespace(remove_invisible_chars(NFC(t)))

normalize_text(t) ==
    IF t = <<>> THEN t
    ELSE strip(collapse_whitespace(remove_invisible_chars(NFC(t))))

\* mutant: the limit is exclusive (< for <=)
validate_tweet_length_strict(t, limit) ==
    LET normalized_text == normalize_text(t)
        length_info == calculate_weighted_length(normalized_text)
        over == length_info.weighted_length - limit
    IN  [is_valid |-> length_info.weighted_length < limit,
         normalized_text |-> normalized_text,
         weighted_length |-> length_info.weighted_length,
         chars_over |-> IF over > 0 THEN over ELSE 0,
         max_length |-> limit,
         url_count |-> length_info.url_count,
         char_breakdown |-> length_info.char_breakdown]

\* mutant: chars_over is the signed difference, max(0, .) is missing
validate_tweet_length_signed_over(t, limit) ==
    LET normalized_text == normalize_text(t)
        length_info == calculate_weighted_length(normalized_text)
    IN  [is_valid |-> length_info.weighted_length <= limit,
         normalized_text |-> normalized_text,
         weighted_length |-> length_info.weighted_length,
         chars_over |-> length_info.weighted_length - limit,
         max_length |-> limit,
         url_count |-> length_info.url_count,
         char_breakdown |-> length_info.char_breakdown]

validate_tweet_length(t, limit) ==
    LET normalized_text == normalize_text(t)
        length_info == calculate_weighted_length(normalized_text)
        over == length_info.weighted_length - limit
    IN  [is_valid |-> length_info.weighted_length <= limit,
         normalized_text |-> normalized_text,
         weighted_length |-> length_info.weighted_length,
         chars_over |-> IF over > 0 THEN over ELSE 0,
         max_length |-> limit,
         url_count |-> length_info.url_count,
         char_breakdown |-> length_info.char_breakdown]

\* mutant: the trailing URL is never detected, every text is cut plainly
trailing_url_of_never(normalized_text) ==
    [has_trailing_url |-> FALSE, trailing_url |-> <<>>,
     main_text |-> normalized_text, potential_url |-> <<>>]

\* lines 206-227: the trailing URL of an over-limit normalized text
trailing_url_of(normalized_text) ==
    LET lines == split_on(normalized_text, LF)
        words == split_words(normalized_text)
        none == [has_trailing_url |-> FALSE, trailing_url |-> <<>>,
                 main_text |-> normalized_text, potential_url |-> <<>>]
    IN  IF Len(lines) >= 2
        THEN LET potential_url == strip(lines[Len(lines)])
             IN  IF URL_PATTERN_match(potential_url)
                 THEN [has_trailing_url |-> TRUE,
                       trailing_url |-> <<LF>> \o potential_url,
                       main_text |-> join(<<LF>>, SubSeq(lines, 1, Len(lines) - 1)),
                       potential_url |-> potential_url]
                 ELSE none
        ELSE IF Len(words) >= 2
             THEN LET potential_url == words[Len(words)]
                  IN  IF URL_PATTERN_match(potential_url)
                      THEN [has_trailing_url |-> TRUE,
                            trailing_url |-> <<SPACE>> \o potential_url,
                            main_text |-> join(<<SPACE>>, SubSeq(words, 1, Len(words) - 1)),
                            potential_url |-> potential_url]
                      ELSE none
             ELSE none

\* the while loop of lines 247-256 and 273-282: best_pos when it exits
\* a search that probes the midpoint once and stops
binary_search_one_probe(s, target, left, right, best_pos) ==
    LET mid == (left + right) \div 2
    IN  IF calculate_weighted_length(SubSeq(s, 1, mid)).weighted_length <= target
        THEN mid
        ELSE best_pos

RECURSIVE binary_search(_, _, _, _, _)
binary_search(s, target, left, right, best_pos) ==
    IF left <= right
    THEN LET mid == (left + right) \div 2
             test_text == SubSeq(s, 1, mid)
             test_length == calculate_weighted_length(test_text).weighted_length
         IN  IF test_length <= target
             THEN binary_search(s, target, mid + 1, right, mid)
             ELSE binary_search(s, target, left, mid - 1, best_pos)
    ELSE best_pos

\* a truncation that puts the ellipsis before the URL even with no lead left
truncate_validated_always_ellipsis(normalized_text, validation, limit, ellipsis) ==
    LET tu == trailing_url_of(normalized_text)
        ellipsis_weight == calculate_weighted_length(ellipsis).weighted_length
    IN  IF validation.is_valid
        THEN [text |-> normalized_text,
              was_truncated |-> FALSE,
              final_length |-> validation.weighted_length]
        ELSE IF tu.has_trailing_url
        THEN LET url_weight == calculate_weighted_length(tu.trailing_url).weighted_length
                 available_weight == limit - url_weight - ellipsis_weight
                 best_pos == binary_search(tu.main_text, available_weight,
                                           0, Len(tu.main_text), 0)
                 truncated_main == rstrip(SubSeq(tu.main_text, 1, best_pos))
                 truncated_text == IF truncated_main # <<>>
                                   THEN truncated_main \o ellipsis \o tu.trailing_url
                                   ELSE ellipsis \o tu.trailing_url
             IN  IF available_weight <= 0
                 THEN [text |-> tu.potential_url,
                       was_truncated |-> TRUE,
                       final_length |->
                           calculate_weighted_length(tu.potential_url).weighted_length]
                 ELSE [text |-> truncated_text,
                       was_truncated |-> TRUE,
                       final_length |->
                           calculate_weighted_length(truncated_text).weighted_length]
        ELSE LET target_length == limit - ellipsis_weight
                 best_pos == binary_search(normalized_text, target_length,
                                           0, Len(normalized_text), 0)
                 truncated_text == rstrip(SubSeq(normalized_text, 1, best_pos)) \o ellipsis
             IN  [text |-> truncated_text,
                  was_truncated |-> TRUE,
                  final_length |->
                      calculate_weighted_length(truncated_text).weighted_length]

\* a truncation whose bare-URL result keeps the separator before the URL
truncate_validated_url_with_separator(normalized_text, validation, limit, ellipsis) ==
    LET tu == trailing_url_of(normalized_text)
        ellipsis_weight == calculate_weighted_length(ellipsis).weighted_length
    IN  IF validation.is_valid
        THEN [text |-> normalized_text,
              was_truncated |-> FALSE,
              final_length |-> validation.weighted_length]
        ELSE IF tu.has_trailing_url
        THEN LET url_weight == calculate_weighted_length(tu.trailing_url).weighted_length
                 available_weight == limit - url_weight - ellipsis_weight
                 best_pos == binary_search(tu.main_text, available_weight,
                                           0, Len(tu.main_text), 0)
                 truncated_main == rstrip(SubSeq(tu.main_text, 1, best_pos))
                 truncated_text == IF truncated_main # <<>>
                                   THEN truncated_main \o ellipsis \o tu.trailing_url
                                   ELSE strip(tu.trailing_url)
             IN  IF available_weight <= 0
                 THEN [text |-> tu.trailing_url,
                       was_truncated |-> TRUE,
                       final_length |->
                           calculate_weighted_length(tu.trailing_url).weighted_length]
                 ELSE [text |-> truncated_text,
                       was_truncated |-> TRUE,
                       final_length |->
                           calculate_weighted_length(truncated_text).weighted_length]
        ELSE LET target_length == limit - ellipsis_weight
                 best_pos == binary_search(normalized_text, target_length,
                                           0, Len(normalized_text), 0)
                 truncated_text == rstrip(SubSeq(normalized_text, 1, best_pos)) \o ellipsis
             IN  [text |-> truncated_text,
                  was_truncated |-> TRUE,
                  final_length |->
                      calculate_weighted_length(truncated_text).weighted_length]

\* lines 199-293: truncate_to_limit once normalized_text and validation
\* are computed
truncate_validated(normalized_text, validation, limit, ellipsis) ==
    LET tu == trailing_url_of(normalized_text)
        ellipsis_weight == calculate_weighted_length(ellipsis).weighted_length
    IN  IF validation.is_valid
        THEN [text |-> normalized_text,
              was_truncated |-> FALSE,
              final_length |-> validation.weighted_length]
        ELSE IF tu.has_trailing_url
        THEN LET url_weight == calculate_weighted_length(tu.trailing_url).weighted_length
                 available_weight == limit - url_weight - ellipsis_weight
                 best_pos == binary_search(tu.main_text, available_weight,
                                           0, Len(tu.main_text), 0)
                 truncated_main == rstrip(SubSeq(tu.main_text, 1, best_pos))
                 truncated_text == IF truncated_main # <<>>
                                   THEN truncated_main \o ellipsis \o tu.trailing_url
                                   ELSE strip(tu.trailing_url)
             IN  IF available_weight <= 0
                 THEN [text |-> tu.potential_url,
                       was_truncated |-> TRUE,
                       final_length |->
                           calculate_weighted_length(tu.potential_url).weighted_length]
                 ELSE [text |-> truncated_text,
                       was_truncated |-> TRUE,
                       final_length |->
                           calculate_weighted_length(truncated_text).weighted_length]
        ELSE LET target_length == limit - ellipsis_weight
                 best_pos == binary_search(normalized_text, target_length,
                                           0, Len(normalized_text), 0)
                 truncated_text == rstrip(SubSeq(normalized_text, 1, best_pos)) \o ellipsis
             IN  [text |-> truncated_text,
                  was_truncated |-> TRUE,
                  final_length |->
                      calculate_weighted_length(truncated_text).weighted_length]

truncate_to_limit(t, limit, ellipsis) ==
    LET normalized_text == normalize_text(t)
        validation == validate_tweet_length(normalized_text, limit)
    IN  truncate_validated(normalized_text, validation, limit, ellipsis)

(***************************************************************************)
(* Module-level convenience functions                                      *)
(***************************************************************************)
validate_post_text(t, limit) == validate_tweet_length(t, limit)

safe_truncate_post(t, limit) == truncate_to_limit(t, limit, ELLIPSIS).text

is_tweet_too_long(t, limit) == ~validate_tweet_length(t, limit).is_valid

get_weighted_length(t) == calculate_weighted_length(t).weighted_length

(***************************************************************************)
(* Inputs: a text is the concatenation of at most MaxWords words of a      *)
(* vocabulary; a limit is one of Limits.                                   *)
(***************************************************************************)
MaxWords == 4

RECURSIVE Repeat(_, _)
Repeat(s, n) == IF n = 0 THEN <<>> ELSE s \o Repeat(s, n - 1)

HTTP_SCHEME == <<LOWER_H, LOWER_T, LOWER_T, LOWER_P, COLON, SLASH, SLASH>>
HTTPS_URL ==
    <<LOWER_H, LOWER_T, LOWER_T, LOWER_P, LOWER_S, COLON, SLASH, SLASH, UPPER_A>>

\* vocabulary of the counting and truncation runs
CountWords ==
    { <<UPPER_A>>, Repeat(<<UPPER_A>>, 7), <<HIRAGANA_A>>, <<SPACE>>,
      HTTP_SCHEME, HTTPS_URL, <<LT>> }

\* vocabulary of the normalisation runs: U+0065 'e' and U+0301 combining
\* acute compose under NFC into the precomposed U+00E9, U+0007 is a
\* control character outside the list
NormWords ==
    { <<UPPER_A>>, <<HIRAGANA_A>>, <<SPACE>>, <<LF>>, <<TAB>>, <<ZWSP>>, <<WORD_JOINER>>,
      <<101>>, <<769>>, <<233>>, <<7>> }

\* 23: the least limit of the truncation postcondition; 26 and 28: the
\* limits at which ' ' + URL + ellipsis leaves 0 and 2 for the lead text
CountLimits == {URL_WEIGHT, 26, 28, DEFAULT_MAX_LENGTH}
NormLimits == {1, 2, 3, DEFAULT_MAX_LENGTH}

TextsOver(words) ==
    { Flatten(ws) : ws \in UNION { [1..n -> words] : n \in 0..MaxWords } }

NoResult == [kind |-> "none"]

Init ==
    /\ text \in TextsOver(CountWords)
    /\ max_length \in CountLimits
    /\ pc = "input"
    /\ result = NoResult

InitNorm ==
    /\ text \in TextsOver(NormWords)
    /\ max_length \in NormLimits
    /\ pc = "input"
    /\ result = NoResult

\* normalize_text(text)
Normalize ==
    /\ pc = "input"
    /\ result' = normalize_text(text)
    /\ pc' = "normalized"
    /\ UNCHANGED <<text, max_length>>

\* calculate_weighted_length(text), as get_weighted_length calls it
Weigh ==
    /\ pc = "input"
    /\ result' = calculate_weighted_length(text)
    /\ pc' = "weighed"
    /\ UNCHANGED <<text, max_length>>

\* validate_post_text(text, max_length)
Validate ==
    /\ pc = "input"
    /\ result' = validate_post_text(text, max_length)
    /\ pc' = "validated"
    /\ UNCHANGED <<text, max_length>>

\* truncate_to_limit(text, max_length), as safe_truncate_post calls it
Truncate ==
    /\ pc = "input"
    /\ result' = truncate_to_limit(text, max_length, ELLIPSIS)
    /\ pc' = "truncated"
    /\ UNCHANGED <<text, max_length>>

Next == Normalize \/ Weigh \/ Validate \/ Truncate

Spec == Init /\ [][Next]_vars

SpecNorm == InitNorm /\ [][Next]_vars

(***************************************************************************)
(* Properties of the truncator                                             *)
(***************************************************************************)

\* the documented unrecoverable case: the preserved trailing URL token
\* alone weighs more than the limit
TrailingUrlOverBudget ==
    LET tu == trailing_url_of(normalize_text(text))
    IN  /\ tu.has_trailing_url
        /\ get_weighted_length(tu.potential_url) > max_length

\* C1: Truncation postcondition.  For every text and every max_length >= 23
\* the text returned by safe_truncate_post weighs at most max_length and
\* validates at max_length, except when the trailing URL alone is already
\* over budget.
C1_TruncationPostcondition ==
    (pc = "truncated" /\ max_length >= URL_WEIGHT /\ ~TrailingUrlOverBudget)
        => /\ result.text = safe_truncate_post(text, max_length)
           /\ get_weighted_length(result.text) <= max_length
           /\ validate_tweet_length(result.text, max_length).is_valid

\* C2: On every return path of truncate_to_limit, for every text and
\* max_length, final_length <= max_length.
C2_FinalLengthWithinLimit ==
    pc = "truncated" => result.final_length <= max_length

C4_NormalizeIdempotent ==
    pc = "normalized" => normalize_text(result) = result

\* C5: Monotonicity.  For every text t and every k < len(t) the weighted
\* length of t[:k] is at most the weighted length of t[:k+1].
C5_PrefixMonotone ==
    pc = "weighed"
        => /\ result.weighted_length = get_weighted_length(SubSeq(text, 1, Len(text)))
           /\ \A k \in 0..(Len(text) - 1) :
                  get_weighted_length(SubSeq(text, 1, k))
                      <= get_weighted_length(SubSeq(text, 1, k + 1))

\* C5 witness: a weighed text one of whose prefixes ends in a bare scheme
\* that the next character completes into a URL
C5_Witness ==
    /\ pc = "weighed"
    /\ \E k \in 1..(Len(text) - 1) :
           /\ URL_PATTERN_findall(SubSeq(text, 1, k)) = <<>>
           /\ URL_PATTERN_findall(SubSeq(text, 1, k + 1)) # <<>>
           /\ get_weighted_length(SubSeq(text, 1, k))
                  < get_weighted_length(SubSeq(text, 1, k + 1))

InsertAt(s, i, c) == SubSeq(s, 1, i) \o <<c>> \o SubSeq(s, i + 1, Len(s))

\* C6: Invisible characters contribute zero to get_weighted_length: for
\* every text t and every listed invisible code point c, t with c inserted
\* weighs what t weighs.
C6_InvisibleWeighsZero ==
    pc = "weighed"
        => \A c \in INVISIBLE_CHARS : \A i \in 0..Len(text) :
               get_weighted_length(InsertAt(text, i, c)) = result.weighted_length

\* C7 as stated: the three fields of the character breakdown (weight_1,
\* weight_2, urls) sum to weighted_length.
C7_BreakdownSumsToLength ==
    pc = "weighed"
        => result.char_breakdown.weight_1 + result.char_breakdown.weight_2
               + result.char_breakdown.urls = result.weighted_length

\* C7 amended: weight_1 + 2 * weight_2 + urls equals weighted_length
\* (weight_2 counts characters, each weighing 2); the plain sum of the
\* three fields equals weighted_length exactly when weight_2 is 0.
C7_BreakdownWeightedSum ==
    pc = "weighed"
        => /\ result.char_breakdown.weight_1 + 2 * result.char_breakdown.weight_2
                  + result.char_breakdown.urls = result.weighted_length
           /\ (result.char_breakdown.weight_1 + result.char_breakdown.weight_2
                  + result.char_breakdown.urls = result.weighted_length)
                  <=> (result.char_breakdown.weight_2 = 0)

\* C7 witness: a weighed text with weight-1 characters, weight-2 characters
\* and a URL
C7_Witness ==
    /\ pc = "weighed"
    /\ result.char_breakdown.weight_1 > 0
    /\ result.char_breakdown.weight_2 > 0
    /\ result.char_breakdown.urls > 0

\* the spans <<first, last>> of the non-overlapping left-to-right matches
RECURSIVE UrlSpansFrom(_, _)
UrlSpansFrom(s, i) ==
    IF i > Len(s) THEN {}
    ELSE LET e == URL_PATTERN_match_end(s, i)
         IN  IF e > 0 THEN {<<i, e>>} \cup UrlSpansFrom(s, e + 1)
             ELSE UrlSpansFrom(s, i + 1)

OutsideUrls(s) ==
    { i \in DOMAIN s : \A sp \in UrlSpansFrom(s, 1) : i < sp[1] \/ i > sp[2] }

\* C8: weighted_length is the number of weight-1 characters outside URL
\* matches, plus twice the number of weight-2 characters outside URL
\* matches, plus 23 per URL match; url_count is the number of matches; the
\* empty text has weighted_length, url_count and every breakdown field 0.
C8_WeightFormula ==
    pc = "weighed"
        => LET outside == OutsideUrls(text)
               ones == { i \in outside : get_character_weight(text[i]) = 1 }
               twos == { i \in outside : get_character_weight(text[i]) = 2 }
               n == Cardinality(UrlSpansFrom(text, 1))
           IN  /\ result.url_count = n
               /\ result.weighted_length
                      = Cardinality(ones) + 2 * Cardinality(twos) + 23 * n
               /\ text = <<>>
                      => /\ result.weighted_length = 0
                         /\ result.url_count = 0
                         /\ result.char_breakdown
                                = [weight_1 |-> 0, weight_2 |-> 0, urls |-> 0]

\* C8 witness: a weighed text with two URL matches and both weight classes
\* outside them
C8_Witness ==
    /\ pc = "weighed"
    /\ result.url_count = 2
    /\ \E i \in OutsideUrls(text) : get_character_weight(text[i]) = 1
    /\ \E i \in OutsideUrls(text) : get_character_weight(text[i]) = 2

(***************************************************************************)
(* Properties of the validator                                             *)
(***************************************************************************)

\* C9: validate_tweet_length returns is_valid == (weighted_length <=
\* max_length) and chars_over == max(0, weighted_length - max_length), with
\* weighted_length the weight of the normalized text; chars_over is 0
\* exactly when is_valid, and is_tweet_too_long is the negation of is_valid.
C9_ValidateContract ==
    pc = "validated"
        => LET w == get_weighted_length(normalize_text(text))
           IN  /\ result.normalized_text = normalize_text(text)
               /\ result.weighted_length = w
               /\ result.is_valid = (w <= max_length)
               /\ result.chars_over = (IF w - max_length > 0 THEN w - max_length ELSE 0)
               /\ (result.chars_over = 0) <=> result.is_valid
               /\ is_tweet_too_long(text, max_length) = ~result.is_valid

\* C9 witness: a validated text that normalisation changes and that is
\* over the limit
C9_Witness ==
    /\ pc = "validated"
    /\ result.normalized_text # text
    /\ ~result.is_valid
    /\ result.chars_over > 0

IsBlank(s) ==
    \A i \in DOMAIN s : IsSpace(s[i]) \/ s[i] \in INVISIBLE_CHARS \/ IsCategoryC(s[i])

\* C10: validate_tweet_length and truncate_to_limit return a well-formed
\* result for every input string; the empty string, a whitespace-only
\* string and a string of invisible characters only validate as is_valid
\* with weighted_length 0 and chars_over 0 at the default limit.
C10_WellFormedResults ==
    /\ pc = "validated"
           => /\ result.is_valid \in BOOLEAN
              /\ result.weighted_length \in Nat
              /\ result.chars_over \in Nat
              /\ result.url_count \in Nat
              /\ result.max_length = max_length
              /\ DOMAIN result.normalized_text = 1..Len(result.normalized_text)
    /\ pc = "truncated"
           => /\ result.was_truncated \in BOOLEAN
              /\ result.final_length \in Nat
              /\ DOMAIN result.text = 1..Len(result.text)
    /\ (pc = "validated" /\ max_length = DEFAULT_MAX_LENGTH /\ IsBlank(text))
           => /\ result.is_valid
              /\ result.weighted_length = 0
              /\ result.chars_over = 0
              /\ result.normalized_text = <<>>

\* C10 witness: a validation at the default limit of a non-empty text that
\* holds whitespace and invisible characters only
C10_Witness ==
    /\ pc = "validated"
    /\ max_length = DEFAULT_MAX_LENGTH
    /\ IsBlank(text)
    /\ \E i \in DOMAIN text : IsSpace(text[i])
    /\ \E i \in DOMAIN text : text[i] \in INVISIBLE_CHARS


(***************************************************************************)
(* Texts at a limit: a weight-1 characters followed by b weight-2          *)
(* characters, weighing within BoundarySlack of a limit of at most         *)
(* MaxBoundaryLimit (the shape of the inputs of test_basic_ascii,          *)
(* test_japanese_text and test_edge_cases, at smaller limits).             *)
(***************************************************************************)
BoundarySlack == 2
MaxBoundaryLimit == 40

InitBoundary ==
    /\ max_length \in 1..MaxBoundaryLimit
    /\ \E w \in (max_length - BoundarySlack)..(max_length + BoundarySlack) :
           \E b \in 0..(w \div 2) :
               /\ w >= 0
               /\ text = Repeat(<<UPPER_A>>, w - 2 * b) \o Repeat(<<HIRAGANA_A>>, b)
    /\ pc = "input"
    /\ result = NoResult

SpecBoundary == InitBoundary /\ [][Next]_vars

CountOf(s, c) == Cardinality({ i \in DOMAIN s : s[i] = c })

\* C11: a URL-free text of a weight-1 characters and b weight-2 characters
\* weighs a + 2b, and the limit is inclusive: the text is valid when
\* a + 2b = max_length and too long when a + 2b = max_length + 1 (280 ASCII
\* or 140 CJK valid; 281 ASCII, 141 CJK, 279 ASCII + 1 CJK invalid at 280).
C11_InclusiveLimit ==
    pc = "validated"
        => LET a == CountOf(text, UPPER_A)
               b == CountOf(text, HIRAGANA_A)
           IN  /\ a + b = Len(text)
               /\ result.weighted_length = a + 2 * b
               /\ get_weighted_length(text) = a + 2 * b
               /\ (a + 2 * b = max_length) => result.is_valid
               /\ (a + 2 * b = max_length + 1)
                      => (~result.is_valid /\ is_tweet_too_long(text, max_length))
               /\ result.is_valid <=> (a + 2 * b <= max_length)

\* C11 witness: max_length - 1 ASCII characters and one CJK character,
\* validated and reported one over
C11_Witness ==
    /\ pc = "validated"
    /\ max_length = MaxBoundaryLimit
    /\ CountOf(text, UPPER_A) = max_length - 1
    /\ CountOf(text, HIRAGANA_A) = 1
    /\ ~result.is_valid
    /\ result.chars_over = 1


RECURSIVE WeightSum(_)
WeightSum(s) ==
    IF s = <<>> THEN 0 ELSE get_character_weight(s[1]) + WeightSum(Tail(s))

\* C12: every matched URL contributes exactly 23 whatever its length and
\* whatever the weight classes of its characters: a text with k URLs weighs
\* 23 * k plus the weight of the characters outside the URLs, and
\* lengthening a URL by a weight-1 or a weight-2 character changes nothing.
C12_UrlFixedWeight ==
    pc = "weighed"
        => LET spans == UrlSpansFrom(text, 1)
           IN  /\ result.char_breakdown.urls = URL_WEIGHT * Cardinality(spans)
               /\ result.weighted_length
                      = URL_WEIGHT * Cardinality(spans)
                            + WeightSum(URL_PATTERN_sub(text))
               /\ \A sp \in spans : \A c \in {UPPER_A, HIRAGANA_A} :
                      get_weighted_length(InsertAt(text, sp[2], c))
                          = result.weighted_length

\* C12 witness: a weighed text with two whitespace-separated URLs of
\* different lengths, one of them holding a weight-2 character
C12_Witness ==
    /\ pc = "weighed"
    /\ Len(split_words(text)) = 2
    /\ \A i \in 1..2 : URL_PATTERN_match_end(split_words(text)[i], 1)
                           = Len(split_words(text)[i])
    /\ Len(split_words(text)[1]) # Len(split_words(text)[2])
    /\ \E i \in DOMAIN text : text[i] = HIRAGANA_A
    /\ result.weighted_length = 2 * URL_WEIGHT + 1


(***************************************************************************)
(* Posts as the pipelines and the tests compose them: a summary, a         *)
(* separator (newline or space) and a final URL token.                     *)
(***************************************************************************)
SummaryWords ==
    { <<UPPER_A>>, Repeat(<<UPPER_A>>, 7), <<HIRAGANA_A>>, <<SPACE>>, HTTP_SCHEME }

\* a URL, and a token that matches URL_PATTERN at its start only
PostUrls == { HTTPS_URL, HTTPS_URL \o <<LT>> }

\* 26 and 27: no room is left beside ' ' + URL + ellipsis; 27 and 28: room
\* for one weight-1 character
PostLimits == {1, URL_WEIGHT, 27, 28}

InitPost ==
    /\ \E summary \in TextsOver(SummaryWords) : \E sep \in {LF, SPACE} :
           \E final_url \in PostUrls :
               text = summary \o <<sep>> \o final_url
    /\ max_length \in PostLimits
    /\ pc = "input"
    /\ result = NoResult

SpecPost == InitPost /\ [][Next]_vars

EndsWith(s, suffix) ==
    /\ Len(suffix) <= Len(s)
    /\ SubSeq(s, Len(s) - Len(suffix) + 1, Len(s)) = suffix

LastLine(s) == split_on(s, LF)[Len(split_on(s, LF))]

\* the input is a lead, a line break and a URL on its own final line
UrlOnOwnLine(s) ==
    /\ Len(split_on(s, LF)) >= 2
    /\ LastLine(s) # <<>>
    /\ URL_PATTERN_match_end(LastLine(s), 1) = Len(LastLine(s))
    /\ strip(SubSeq(s, 1, Len(s) - Len(LastLine(s)) - 1)) # <<>>

\* C13: when an over-limit text is a lead, a line break and a URL on its
\* own final line, truncate_to_limit returns the truncated lead, then the
\* ellipsis, then a newline, then the full URL on its own line.
C13_UrlStaysOnOwnLine ==
    (pc = "truncated" /\ result.was_truncated /\ UrlOnOwnLine(text))
        => \/ EndsWith(result.text, ELLIPSIS \o <<LF>> \o LastLine(text))
           \/ result.text = LastLine(text)


LastWord(s) == split_words(s)[Len(split_words(s))]

\* the normalized text is over the limit and its final whitespace-delimited
\* token matches URL_PATTERN at its start
OverLimitWithFinalUrlToken ==
    /\ get_weighted_length(normalize_text(text)) > max_length
    /\ split_words(normalize_text(text)) # <<>>
    /\ URL_PATTERN_match(LastWord(normalize_text(text)))

\* C14 as stated: whenever the normalized text is over the limit and its
\* final whitespace-delimited token matches the URL pattern at its start,
\* the returned text ends with that complete token, unchanged.
C14_TrailingUrlNeverCut ==
    (pc = "truncated" /\ OverLimitWithFinalUrlToken)
        => EndsWith(result.text, LastWord(normalize_text(text)))

\* What the code does keep: the final URL token of a normalized text of at
\* least two whitespace-delimited tokens (a one-token text is cut plainly).
C14_TrailingUrlKeptAfterLead ==
    (pc = "truncated" /\ OverLimitWithFinalUrlToken
        /\ Len(split_words(normalize_text(text))) >= 2)
        => EndsWith(result.text, LastWord(normalize_text(text)))

\* a truncated post whose lead was cut and whose final URL token is whole
C14_Witness ==
    /\ pc = "truncated"
    /\ OverLimitWithFinalUrlToken
    /\ Len(split_words(normalize_text(text))) >= 2
    /\ result.was_truncated
    /\ \E i \in DOMAIN result.text : result.text[i] = ELLIPSIS[1]
    /\ EndsWith(result.text, LastWord(normalize_text(text)))


\* the canonical decomposition of the precomposed characters of NFC_PAIRS:
\* the same text written with base characters and combining marks
RECURSIVE Decompose(_)
Decompose(s) ==
    IF s = <<>> THEN s
    ELSE LET hit == { p \in NFC_PAIRS : p[3] = s[1] }
         IN  IF hit # {}
             THEN LET p == CHOOSE q \in hit : TRUE
                  IN  <<p[1], p[2]>> \o Decompose(Tail(s))
             ELSE <<s[1]>> \o Decompose(Tail(s))

\* C15: canonically equivalent inputs count identically: a text written
\* with precomposed characters and the same text written with base
\* character + combining mark validate to the same normalized_text and the
\* same weighted_length.
C15_CanonicalEquivalence ==
    pc = "validated"
        => LET other == validate_tweet_length(Decompose(text), max_length)
           IN  /\ other.normalized_text = result.normalized_text
               /\ other.weighted_length = result.weighted_length
               /\ other.is_valid = result.is_valid

\* C15 witness: a validated text that holds a precomposed character which
\* survives normalisation
C15_Witness ==
    /\ pc = "validated"
    /\ Decompose(text) # text
    /\ Len(Decompose(text)) > Len(text)
    /\ \E i \in DOMAIN result.normalized_text : result.normalized_text[i] = 233


(***************************************************************************)
(* Interleaved calls.  Every call of validate_tweet_length (lines 164-178) *)
(* or truncate_to_limit (lines 195-293) keeps its intermediate values in   *)
(* locals; the class attributes are only read.  Under SpecConc the four    *)
(* variables are indexed by call: text, max_length and pc are functions    *)
(* over Calls, and result holds the class attributes (cls) and each call's *)
(* frame (op, normalized_text, info, ret).                                 *)
(***************************************************************************)
NumCalls == 2

Calls == 1..NumCalls

ClassAttributes ==
    [WEIGHT_1_RANGES |-> WEIGHT_1_RANGES,
     INVISIBLE_CHARS |-> INVISIBLE_CHARS,
     URL_PATTERN |-> "https?://[^\\s<>\"]+"]

ConcTexts ==
    { <<>>,
      <<SPACE, UPPER_A, ZWSP, LF, HIRAGANA_A>>,
      Repeat(<<HIRAGANA_A>>, 3),
      Repeat(<<UPPER_A>>, 7) \o <<SPACE>> \o HTTPS_URL }

ConcLimits == {3, 26}

ConcOps == {"validate_tweet_length", "truncate_to_limit"}

InitConc ==
    /\ text \in [Calls -> ConcTexts]
    /\ max_length \in [Calls -> ConcLimits]
    /\ pc = [p \in Calls |-> "called"]
    /\ \E op \in [Calls -> ConcOps] :
           result = [cls |-> ClassAttributes,
                     op |-> op,
                     normalized_text |-> [p \in Calls |-> <<>>],
                     info |-> [p \in Calls |-> NoResult],
                     ret |-> [p \in Calls |-> NoResult]]

\* a call whose normalized text lands in an attribute every call reads
ConcNormalize_shared(p) ==
    /\ pc[p] = "called"
    /\ pc' = [pc EXCEPT ![p] = "normalized"]
    /\ result' = [result EXCEPT
                      !.normalized_text = [q \in Calls |-> normalize_text(text[p])]]
    /\ UNCHANGED <<text, max_length>>

\* line 164 / line 195: normalized_text = cls.normalize_text(text)
ConcNormalize(p) ==
    /\ pc[p] = "called"
    /\ pc' = [pc EXCEPT ![p] = "normalized"]
    /\ result' = [result EXCEPT
                      !.normalized_text[p] = normalize_text(text[p])]
    /\ UNCHANGED <<text, max_length>>

\* line 165: length_info = cls.calculate_weighted_length(normalized_text)
\* line 198: validation = cls.validate_tweet_length(normalized_text, max_length)
ConcMeasure(p) ==
    /\ pc[p] = "normalized"
    /\ pc' = [pc EXCEPT ![p] = "measured"]
    /\ result' = [result EXCEPT
                      !.info[p] =
                          IF result.op[p] = "validate_tweet_length"
                          THEN calculate_weighted_length(result.normalized_text[p])
                          ELSE validate_tweet_length(result.normalized_text[p],
                                                     max_length[p])]
    /\ UNCHANGED <<text, max_length>>

\* lines 167-178 / lines 199-293: the returned dictionary
ConcReturn(p) ==
    /\ pc[p] = "measured"
    /\ pc' = [pc EXCEPT ![p] = "returned"]
    /\ result' = [result EXCEPT
                      !.ret[p] =
                          IF result.op[p] = "validate_tweet_length"
                          THEN LET length_info == result.info[p]
                                   weighted_length == length_info.weighted_length
                               IN  [is_valid |-> weighted_length <= max_length[p],
                                    normalized_text |-> result.normalized_text[p],
                                    weighted_length |-> weighted_length,
                                    chars_over |->
                                        IF weighted_length - max_length[p] > 0
                                        THEN weighted_length - max_length[p]
                                        ELSE 0,
                                    max_length |-> max_length[p],
                                    url_count |-> length_info.url_count,
                                    char_breakdown |-> length_info.char_breakdown]
                          ELSE truncate_validated(result.normalized_text[p],
                                                  result.info[p],
                                                  max_length[p], ELLIPSIS)]
    /\ UNCHANGED <<text, max_length>>

NextConc ==
    \E p \in Calls : ConcNormalize(p) \/ ConcMeasure(p) \/ ConcReturn(p)

SpecConc == InitConc /\ [][NextConc]_vars

\* C16: when validate_tweet_length / truncate_to_limit calls are
\* interleaved in any order, every call that has returned holds the result
\* the same call yields when run alone, and the class attributes (weight
\* ranges, invisible characters, URL pattern) still have their values.
C16_CallsIndependent ==
    /\ result.cls = ClassAttributes
    /\ \A p \in Calls :
           pc[p] = "returned"
               => result.ret[p] =
                      IF result.op[p] = "validate_tweet_length"
                      THEN validate_tweet_length(text[p], max_length[p])
                      ELSE truncate_to_limit(text[p], max_length[p], ELLIPSIS)

\* one call has returned while a call on another text, started before the
\* first one measured, is still between its normalisation and its measure
C16_Witness ==
    /\ pc[1] = "returned"
    /\ pc[2] = "normalized"
    /\ result.op[1] = "truncate_to_limit"
    /\ result.op[2] = "validate_tweet_length"
    /\ result.normalized_text[1] # result.normalized_text[2]
    /\ result.ret[1].was_truncated


(***************************************************************************)
(* The search of the truncation that produced the current result: the      *)
(* searched string s, the target weight and best_pos, per mode             *)
(* (lines 229-256 and 264-282).  ran is FALSE when the bare URL was        *)
(* returned before any search.                                             *)
(***************************************************************************)
SearchOf(t, limit) ==
    LET normalized_text == normalize_text(t)
        tu == trailing_url_of(normalized_text)
        ellipsis_weight == calculate_weighted_length(ELLIPSIS).weighted_length
        url_weight == calculate_weighted_length(tu.trailing_url).weighted_length
        s == IF tu.has_trailing_url THEN tu.main_text ELSE normalized_text
        target == IF tu.has_trailing_url
                  THEN limit - url_weight - ellipsis_weight
                  ELSE limit - ellipsis_weight
    IN  [trailing_url_mode |-> tu.has_trailing_url,
         ran |-> ~tu.has_trailing_url \/ target > 0,
         s |-> s,
         target |-> target,
         best_pos |-> binary_search(s, target, 0, Len(s), 0)]

Fits(s, k, target) ==
    calculate_weighted_length(SubSeq(s, 1, k)).weighted_length <= target

SearchRan ==
    /\ pc = "truncated"
    /\ result.was_truncated
    /\ SearchOf(text, max_length).ran

TrailingUrlMode == trailing_url_of(normalize_text(text))

TruncatedInTrailingUrlMode ==
    /\ pc = "truncated"
    /\ result.was_truncated
    /\ TrailingUrlMode.has_trailing_url

available_weight ==
    max_length
        - calculate_weighted_length(TrailingUrlMode.trailing_url).weighted_length
        - calculate_weighted_length(ELLIPSIS).weighted_length

\* the result is a non-empty part of the lead, the ellipsis, then the
\* separator and the URL
LeadThenEllipsisThenUrl ==
    \E k \in 1..Len(TrailingUrlMode.main_text) :
        result.text = SubSeq(TrailingUrlMode.main_text, 1, k)
                          \o ELLIPSIS \o TrailingUrlMode.trailing_url

\* the result is the URL alone: no lead text, no ellipsis
BareUrlOnly == result.text = TrailingUrlMode.potential_url

\* C18 as stated: in trailing-URL mode a truncated result is the URL alone
\* only when available <= 0; whenever available > 0 it is a non-empty part
\* of the lead followed by the ellipsis before the URL.
C18_BareUrlOnlyWhenNoRoom ==
    TruncatedInTrailingUrlMode
        => /\ BareUrlOnly => available_weight <= 0
           /\ available_weight > 0 => LeadThenEllipsisThenUrl

\* C18 amended: the result is the URL alone exactly when available <= 0 or
\* not even the first character of the lead fits into available; in every
\* other case it is a non-empty part of the lead followed by the ellipsis
\* before the URL.
C18_BareUrlWhenNothingFits ==
    TruncatedInTrailingUrlMode
        => LET nothing_fits ==
                   \/ available_weight <= 0
                   \/ ~Fits(TrailingUrlMode.main_text, 1, available_weight)
           IN  /\ BareUrlOnly <=> nothing_fits
               /\ ~nothing_fits => LeadThenEllipsisThenUrl

\* available is positive, the first lead character does not fit, and the
\* result is the URL alone
C18_Witness ==
    /\ TruncatedInTrailingUrlMode
    /\ available_weight > 0
    /\ ~Fits(TrailingUrlMode.main_text, 1, available_weight)
    /\ BareUrlOnly


\* the text is over the limit, ends with a URL token, and the URL with its
\* separator and the ellipsis leave no room for lead text (lines 229-234)
NoRoomBesideUrl ==
    /\ pc = "truncated"
    /\ ~validate_tweet_length(text, max_length).is_valid
    /\ TrailingUrlMode.has_trailing_url
    /\ available_weight <= 0

\* C19: when the truncation detects a trailing URL and
\* max_length - weight(separator+URL) - weight(ellipsis) <= 0, the result is
\* exactly the bare URL token, with was_truncated true and final_length the
\* weighted length of that token, even when that exceeds max_length.
C19_BareUrlReturned ==
    NoRoomBesideUrl
        => /\ result.text = TrailingUrlMode.potential_url
           /\ result.was_truncated
           /\ result.final_length =
                  calculate_weighted_length(TrailingUrlMode.potential_url).weighted_length

\* the bare URL token was returned although it alone exceeds max_length
C19_Witness ==
    /\ NoRoomBesideUrl
    /\ result.text = TrailingUrlMode.potential_url
    /\ result.final_length > max_length
    /\ max_length >= URL_WEIGHT


\* C20: the output of normalize_text contains none of the listed invisible
\* code points and no other control/format-category code point, has no
\* leading or trailing whitespace and no run of two or more whitespace
\* characters: its only whitespace is single spaces between the words of the
\* input, one for each whitespace run.
C20_NormalizedShape ==
    pc = "normalized"
        => /\ \A i \in DOMAIN result :
                  /\ result[i] \notin INVISIBLE_CHARS
                  /\ ~IsCategoryC(result[i])
                  /\ IsSpace(result[i])
                         => /\ result[i] = SPACE
                            /\ 1 < i
                            /\ i < Len(result)
                            /\ ~IsSpace(result[i + 1])
           /\ result = join(<<SPACE>>, split_words(remove_invisible_chars(NFC(text))))

\* an input with a run of different whitespace characters and a control or
\* invisible character, normalized to a non-empty text
C20_Witness ==
    /\ pc = "normalized"
    /\ \E i \in 1..(Len(text) - 1) :
           IsSpace(text[i]) /\ IsSpace(text[i + 1]) /\ text[i] # text[i + 1]
    /\ \E i \in DOMAIN text : IsCategoryC(text[i]) /\ ~IsSpace(text[i])
    /\ result # <<>>


(***************************************************************************)
(* truncate_to_limit statement by statement: the entry (lines 195-242 and  *)
(* 264-268), one iteration of the binary-search loop (lines 246-256 and    *)
(* 272-282) and the loop exit with the assembly of the result (lines       *)
(* 258-263 and 285-293).  Under SpecSearch pc runs "input" -> "searching"  *)
(* -> "done" and result holds the loop's locals while searching.           *)
(***************************************************************************)
MaxRun == 4

SearchLimits == {1, 3, 5, 26, 27, URL_WEIGHT + 7}

InitSearch ==
    /\ \E a \in 0..MaxRun : \E b \in 0..MaxRun :
           \E tail \in { <<>>, <<SPACE>> \o HTTPS_URL } :
               text = Repeat(<<UPPER_A>>, a) \o Repeat(<<HIRAGANA_A>>, b) \o tail
    /\ max_length \in SearchLimits
    /\ pc = "input"
    /\ result = NoResult

\* lines 199-242, 264-268: the value returned at once, or the locals of the
\* loop: the searched string s, the target weight, left, right, best_pos,
\* and the trailing URL kept for the assembly
search_entry(normalized_text, validation, limit) ==
    LET tu == trailing_url_of(normalized_text)
        ellipsis_weight == calculate_weighted_length(ELLIPSIS).weighted_length
        url_weight == calculate_weighted_length(tu.trailing_url).weighted_length
        s == IF tu.has_trailing_url THEN tu.main_text ELSE normalized_text
    IN  IF validation.is_valid
        THEN [text |-> normalized_text,
              was_truncated |-> FALSE,
              final_length |-> validation.weighted_length]
        ELSE IF tu.has_trailing_url /\ limit - url_weight - ellipsis_weight <= 0
        THEN [text |-> tu.potential_url,
              was_truncated |-> TRUE,
              final_length |->
                  calculate_weighted_length(tu.potential_url).weighted_length]
        ELSE [s |-> s,
              target |-> IF tu.has_trailing_url
                         THEN limit - url_weight - ellipsis_weight
                         ELSE limit - ellipsis_weight,
              left |-> 0,
              right |-> Len(s),
              best_pos |-> 0,
              has_trailing_url |-> tu.has_trailing_url,
              trailing_url |-> tu.trailing_url]

\* lines 195-242, 264-268: return at once, or enter the loop
SearchBegin ==
    /\ pc = "input"
    /\ LET normalized_text == normalize_text(text)
           validation == validate_tweet_length(normalized_text, max_length)
       IN  result' = search_entry(normalized_text, validation, max_length)
    /\ pc' = IF "left" \in DOMAIN result' THEN "searching" ELSE "done"
    /\ UNCHANGED <<text, max_length>>

\* an iteration that moves left to mid instead of mid + 1
SearchProbe_left_to_mid ==
    /\ pc = "searching"
    /\ result.left <= result.right
    /\ LET mid == (result.left + result.right) \div 2
           test_text == SubSeq(result.s, 1, mid)
           test_length == calculate_weighted_length(test_text).weighted_length
       IN  result' = IF test_length <= result.target
                     THEN [result EXCEPT !.best_pos = mid, !.left = mid]
                     ELSE [result EXCEPT !.right = mid - 1]
    /\ UNCHANGED <<text, max_length, pc>>

\* lines 246-256, 272-282: one iteration of while left <= right
SearchProbe ==
    /\ pc = "searching"
    /\ result.left <= result.right
    /\ LET mid == (result.left + result.right) \div 2
           test_text == SubSeq(result.s, 1, mid)
           test_length == calculate_weighted_length(test_text).weighted_length
       IN  result' = IF test_length <= result.target
                     THEN [result EXCEPT !.best_pos = mid, !.left = mid + 1]
                     ELSE [result EXCEPT !.right = mid - 1]
    /\ UNCHANGED <<text, max_length, pc>>

\* lines 258-263, 285-293: the loop has exited; assemble and return
SearchFinish ==
    /\ pc = "searching"
    /\ result.left > result.right
    /\ LET truncated_main == rstrip(SubSeq(result.s, 1, result.best_pos))
           truncated_text ==
               IF result.has_trailing_url
               THEN IF truncated_main # <<>>
                    THEN truncated_main \o ELLIPSIS \o result.trailing_url
                    ELSE strip(result.trailing_url)
               ELSE truncated_main \o ELLIPSIS
       IN  result' = [text |-> truncated_text,
                      was_truncated |-> TRUE,
                      final_length |->
                          calculate_weighted_length(truncated_text).weighted_length]
    /\ pc' = "done"
    /\ UNCHANGED <<text, max_length>>

NextSearch == SearchBegin \/ SearchProbe \/ SearchFinish

SpecSearch == InitSearch /\ [][NextSearch]_vars

\* control leaves the entry statements
EntryLeft == pc = "input" /\ pc' \in {"searching", "done"}

\* control leaves the loop once its condition left <= right is false
LoopLeft == pc = "searching" /\ result.left > result.right /\ pc' = "done"

\* one thread runs the call: it leaves the entry, it runs the next
\* iteration while the loop condition holds, and it leaves the loop
SpecSearchFair ==
    SpecSearch /\ WF_pc(EntryLeft) /\ WF_vars(SearchProbe) /\ WF_pc(LoopLeft)

\* the statement-by-statement run returns what truncate_to_limit returns
SearchReturnsTruncation ==
    pc = "done" => result = truncate_to_limit(text, max_length, ELLIPSIS)

\* C21: truncate_to_limit terminates: every iteration of the binary-search
\* loop strictly shrinks the interval [left, right], and every call
\* eventually returns a result.
C21_SearchTerminates ==
    /\ [][pc = "searching" /\ pc' = "searching"
              => result'.right - result'.left < result.right - result.left]_vars
    /\ <>(pc = "done")

\* a call that has returned after its loop ran
C21_Witness ==
    /\ pc = "done"
    /\ result.was_truncated
    /\ SearchOf(text, max_length).ran
    /\ SearchOf(text, max_length).best_pos > 0


(***************************************************************************)
(* ai_news.fetch_latest_article over successive runs.  Under SpecFetch pc  *)
(* is the position inside a run and result holds the world and the run's   *)
(* locals:                                                                 *)
(*   archive         date of the first article with metadata on the        *)
(*                   archive page (NoDate: none)                           *)
(*   last_date_file  content of last_date_file (NoDate: no such file)      *)
(*   article_date    local of the run (lines 41)                           *)
(*   previous_date   local of the run (lines 49-53)                        *)
(*   returned        the value the run returned: None, or the text of the  *)
(*                   article of a date                                     *)
(* text and max_length belong to the validator and stay as they are.       *)
(***************************************************************************)
NumDates == 3

NoDate == 0

Dates == 1..NumDates

ReturnedNone == [kind |-> "None", article |-> NoDate]

ReturnedText(d) == [kind |-> "text", article |-> d]

InitFetch ==
    /\ text = <<>>
    /\ max_length = DEFAULT_MAX_LENGTH
    /\ pc = "idle"
    /\ \E a \in Dates \cup {NoDate} :
           result = [archive |-> a,
                     last_date_file |-> NoDate,
                     article_date |-> NoDate,
                     previous_date |-> NoDate,
                     returned |-> ReturnedNone]

\* the newsletter publishes: the archive page lists a newer article first
Publish ==
    /\ \E d \in Dates :
           /\ d > result.archive
           /\ result' = [result EXCEPT !.archive = d]
    /\ UNCHANGED <<text, max_length, pc>>

\* lines 21-46: the archive page is fetched and the first article with
\* metadata is taken; without one the run returns None (lines 36-38)
FetchArchive ==
    /\ pc = "idle"
    /\ IF result.archive = NoDate
       THEN /\ pc' = "returned"
            /\ result' = [result EXCEPT !.article_date = NoDate,
                                        !.previous_date = NoDate,
                                        !.returned = ReturnedNone]
       ELSE /\ pc' = "listed"
            /\ result' = [result EXCEPT !.article_date = result.archive,
                                        !.previous_date = NoDate]
    /\ UNCHANGED <<text, max_length>>

\* lines 21-22, 69-71: the archive request raises RequestException
FetchArchiveFails ==
    /\ pc = "idle"
    /\ pc' = "returned"
    /\ result' = [result EXCEPT !.article_date = NoDate,
                                !.previous_date = NoDate,
                                !.returned = ReturnedNone]
    /\ UNCHANGED <<text, max_length>>

\* a comparison that never finds the dates equal
CompareDates_always_new ==
    /\ pc = "listed"
    /\ pc' = "new"
    /\ result' = [result EXCEPT !.previous_date = result.last_date_file]
    /\ UNCHANGED <<text, max_length>>

\* lines 48-58: read the stored date, return None when it is the article's
CompareDates ==
    /\ pc = "listed"
    /\ IF result.article_date = result.last_date_file
       THEN /\ pc' = "returned"
            /\ result' = [result EXCEPT !.previous_date = result.last_date_file,
                                        !.returned = ReturnedNone]
       ELSE /\ pc' = "new"
            /\ result' = [result EXCEPT !.previous_date = result.last_date_file]
    /\ UNCHANGED <<text, max_length>>

\* lines 60-62: the new date is written to last_date_file
SaveDate ==
    /\ pc = "new"
    /\ pc' = "saved"
    /\ result' = [result EXCEPT !.last_date_file = result.article_date]
    /\ UNCHANGED <<text, max_length>>

\* lines 64-67: the article is fetched and its text returned
FetchContent ==
    /\ pc = "saved"
    /\ pc' = "returned"
    /\ result' = [result EXCEPT !.returned = ReturnedText(result.article_date)]
    /\ UNCHANGED <<text, max_length>>

\* lines 65-66, 69-71: the article request raises RequestException
FetchContentFails ==
    /\ pc = "saved"
    /\ pc' = "returned"
    /\ result' = [result EXCEPT !.returned = ReturnedNone]
    /\ UNCHANGED <<text, max_length>>

\* the next run of the script calls fetch_latest_article again
NextRun ==
    /\ pc = "returned"
    /\ pc' = "idle"
    /\ UNCHANGED <<text, max_length, result>>

NextFetch ==
    \/ Publish
    \/ FetchArchive
    \/ FetchArchiveFails
    \/ CompareDates
    \/ SaveDate
    \/ FetchContent
    \/ FetchContentFails
    \/ NextRun

SpecFetch == InitFetch /\ [][NextFetch]_vars

\* C22: a run returns article content only if the latest article's date
\* differs from the date the previous fetch stored in last_date_file; when
\* the two dates are equal the run returns None and the stored date is
\* unchanged.
C22_ContentOnlyOnNewDate ==
    pc = "returned"
        => /\ result.returned.kind = "text"
                  => /\ result.article_date # result.previous_date
                     /\ result.returned.article = result.article_date
           /\ (result.article_date # NoDate /\ result.article_date = result.previous_date)
                  => /\ result.returned = ReturnedNone
                     /\ result.last_date_file = result.previous_date

\* a later run found the date it had stored before and returned None
C22_Witness ==
    /\ pc = "returned"
    /\ result.article_date # NoDate
    /\ result.article_date = result.previous_date
    /\ result.returned = ReturnedNone
    /\ result.last_date_file = result.article_date

\* C30: the stored date is updated only for an article whose content the
\* run also returns: a run that returns None (the article request failed
\* after a new date was seen) leaves last_date_file as it found it.
C30_DateStoredOnlyWithContent ==
    (pc = "returned" /\ result.article_date # NoDate)
        => (result.last_date_file # result.previous_date
                => result.returned = ReturnedText(result.article_date))


\* the prefix the truncator keeps, after trimming trailing whitespace
\* (lines 259 and 285)
ChosenPrefix ==
    LET q == SearchOf(text, max_length)
    IN  rstrip(SubSeq(q.s, 1, q.best_pos))

\* C23: appending the ellipsis to the chosen prefix p adds exactly the
\* ellipsis weight: weight(p + ellipsis) = weight(p) + weight(ellipsis),
\* also when p ends in a bare URL scheme.
C23_EllipsisAddsOwnWeight ==
    SearchRan
        => calculate_weighted_length(ChosenPrefix \o ELLIPSIS).weighted_length
               = calculate_weighted_length(ChosenPrefix).weighted_length
                     + calculate_weighted_length(ELLIPSIS).weighted_length


\* C24: on every return path of truncate_to_limit final_length is the
\* weighted length (calculate_weighted_length, no further normalization) of
\* the returned text, the already-valid path included.
C24_FinalLengthIsWeightOfText ==
    pc = "truncated"
        => result.final_length = calculate_weighted_length(result.text).weighted_length


\* C25: the validator and the truncator agree: truncate_to_limit returns
\* was_truncated true if and only if is_tweet_too_long(text, max_length).
C25_TruncatedIffTooLong ==
    pc = "truncated"
        => (result.was_truncated <=> is_tweet_too_long(text, max_length))


ReattachedTail ==
    IF TrailingUrlMode.has_trailing_url
    THEN TrailingUrlMode.trailing_url
    ELSE <<>>

\* C27: truncation only removes content: a truncated result is a prefix of
\* normalize_text(text), then the ellipsis, then the re-attached trailing
\* URL (itself the end of the normalized text); without ellipsis it is the
\* trailing URL alone.  Nothing else is inserted, reordered or altered.
C27_TruncationOnlyRemoves ==
    (pc = "truncated" /\ result.was_truncated)
        => LET normalized_text == normalize_text(text)
               room == Len(normalized_text) - Len(ReattachedTail)
               k == Len(result.text) - Len(ELLIPSIS) - Len(ReattachedTail)
           IN  /\ EndsWith(normalized_text, ReattachedTail)
               /\ \/ /\ k \in 0..room
                     /\ result.text = SubSeq(normalized_text, 1, k)
                                          \o ELLIPSIS \o ReattachedTail
                  \/ /\ TrailingUrlMode.has_trailing_url
                     /\ result.text = TrailingUrlMode.potential_url

\* a truncation in trailing-URL mode that cut the lead after a space and
\* trimmed it: the kept word, the ellipsis, then the URL
C27_Witness ==
    /\ TruncatedInTrailingUrlMode
    /\ ~BareUrlOnly
    /\ SearchOf(text, max_length).best_pos > Len(ChosenPrefix)
    /\ result.text = ChosenPrefix \o ELLIPSIS \o TrailingUrlMode.trailing_url


\* C28: truncation is idempotent: for max_length >= 23,
\* safe_truncate_post(safe_truncate_post(text, max_length), max_length)
\* = safe_truncate_post(text, max_length).
C28_TruncationIdempotent ==
    (pc = "truncated" /\ max_length >= URL_WEIGHT)
        => safe_truncate_post(safe_truncate_post(text, max_length), max_length)
               = safe_truncate_post(text, max_length)


(***************************************************************************)
(* The posting pipelines: rss_summary.main (lines 222-245), rundown.main   *)
(* (lines 204-229) and the_batch.main (lines 250-282).  Under SpecPipeline *)
(* text is the summary (first paragraph), max_length the limit of X and    *)
(* result holds the pipeline's name, the article URL and post_text; pc     *)
(* runs "summarized" -> "composed" -> ("too_long" ->) "checked"            *)
(* (-> ("still_too_long" ->) "rechecked") -> "posted".  A URL weighs 23    *)
(* whatever its length, so summaries that list URLs reach the limit with   *)
(* few characters.                                                         *)
(***************************************************************************)
MaxUrls == 10

ELLIPSIS_RESERVE == 6

Pipelines == {"rss_summary", "rundown", "the_batch"}

PipelineWords ==
    { Repeat(<<UPPER_A>>, 4), HTTP_SCHEME, <<UPPER_A>>, <<SPACE>> }

InitPipeline ==
    /\ \E n \in {0, MaxUrls} : \E tail \in TextsOver(PipelineWords) :
           text = <<HIRAGANA_A, SPACE>>
                      \o Repeat(HTTPS_URL \o <<SPACE>>, n) \o tail
    /\ max_length = DEFAULT_MAX_LENGTH
    /\ pc = "summarized"
    /\ \E p \in Pipelines :
           result = [pipeline |-> p, final_url |-> HTTPS_URL, post_text |-> <<>>]

\* post_text = f"{summary}\n{final_url}"
Compose ==
    /\ pc = "summarized"
    /\ pc' = "composed"
    /\ result' = [result EXCEPT !.post_text = text \o <<LF>> \o result.final_url]
    /\ UNCHANGED <<text, max_length>>

\* validation = validate_post_text(post_text); if not validation['is_valid']
ValidatePost ==
    /\ pc = "composed"
    /\ pc' = IF validate_post_text(result.post_text, max_length).is_valid
             THEN "checked"
             ELSE "too_long"
    /\ UNCHANGED <<text, max_length, result>>

\* the two calls of safe_truncate_post.  After the first validation the
\* summary is cut to what the URL line leaves (available_weight in the
\* source, summary_weight here) and the URL line is put back, or the summary
\* is dropped when that is not more than the reserve; after the final
\* validation of the_batch the whole post is cut to the limit.
TruncatePost ==
    /\ pc \in {"too_long", "still_too_long"}
    /\ pc' = IF pc = "too_long" THEN "checked" ELSE "rechecked"
    /\ LET url_line == <<LF>> \o result.final_url
           summary_weight ==
               max_length - calculate_weighted_length(url_line).weighted_length
           call == IF pc = "too_long"
                   THEN [text |-> text, max_length |-> summary_weight,
                         rest |-> url_line]
                   ELSE [text |-> result.post_text, max_length |-> max_length,
                         rest |-> <<>>]
       IN  result' = [result EXCEPT !.post_text =
                          IF pc = "too_long" /\ summary_weight <= ELLIPSIS_RESERVE
                          THEN result.final_url
                          ELSE safe_truncate_post(call.text, call.max_length)
                                   \o call.rest]
    /\ UNCHANGED <<text, max_length>>

\* the_batch only: final validation of each post before it is sent
Recheck ==
    /\ pc = "checked"
    /\ result.pipeline = "the_batch"
    /\ pc' = IF validate_post_text(result.post_text, max_length).is_valid
             THEN "rechecked"
             ELSE "still_too_long"
    /\ UNCHANGED <<text, max_length, result>>

\* post_to_x(post_text)
Post ==
    /\ \/ pc = "checked" /\ result.pipeline # "the_batch"
       \/ pc = "rechecked"
    /\ pc' = "posted"
    /\ UNCHANGED <<text, max_length, result>>

NextPipeline == Compose \/ ValidatePost \/ TruncatePost \/ Recheck \/ Post

SpecPipeline == InitPipeline /\ [][NextPipeline]_vars

\* C29: in the posting pipelines every text handed to post_to_x validates
\* as is_valid at the 280 limit after the compose -> validate -> truncate
\* steps.
C29_PostedTextIsValid ==
    pc = "posted"
        => validate_post_text(result.post_text, DEFAULT_MAX_LENGTH).is_valid

====
